---- MODULE Spec2Model ----
(***************************************************************************)
(* Retrieval core of the BCI regulatory navigator: the chunker             *)
(* (document_loader.py), the BM25 index with its persistence and the       *)
(* search facade (search_engine.py).                                       *)
(*                                                                         *)
(* A text is a sequence of one-character strings.  Five specifications     *)
(* share the module: SpecChunk (chunk_text as a function of its inputs),   *)
(* SpecTokenize (tokenize as a function of its text), SpecLoad             *)
(* (load_all_documents on listings of source files), SpecSearch            *)
(* (build_index and search on bounded corpora) and Spec (the facade with   *)
(* the two persisted artifacts).                                           *)
(***************************************************************************)
EXTENDS Integers, Sequences, FiniteSets, TLC

VARIABLES
    \* chunk_text: the arguments, the returned list, the call's position
    text, chunk_size, overlap, chunks, chunk_pc,
    \* tokenize: the returned list and the call's position (the argument is
    \* text)
    returned_tokens, token_pc,
    \* the BM25Index object and the two persisted artifacts
    index, index_file, embedding_file,
    \* the position of the caller, and the index object as it was when the
    \* call in progress started (SpecSearch: as it was last built or saved)
    pc, prior,
    \* the last search on the index object: its arguments and its outcome
    query, top_k, results,
    \* the facade: _loaded, the listing of source files, the call in progress
    \* or just ended, initialize's local documents and build_index's loop
    \* counter, and what a concurrent search saw
    loaded, source_files, call, documents, doc_idx, observed

(***************************************************************************)
(* Bounds of the chunker's inputs.                                         *)
(***************************************************************************)
MaxTextLen == 6

MaxChunkSize == 3

(***************************************************************************)
(* Python string primitives used by the loader.                            *)
(***************************************************************************)
Whitespace == {" ", "\n"}

RECURSIVE LStrip(_)
LStrip(s) ==
    IF s = <<>> THEN s
    ELSE IF s[1] \in Whitespace THEN LStrip(Tail(s)) ELSE s

RECURSIVE RStrip(_)
RStrip(s) ==
    IF s = <<>> THEN s
    ELSE IF s[Len(s)] \in Whitespace THEN RStrip(SubSeq(s, 1, Len(s) - 1)) ELSE s

\* str.strip()
Strip(s) == RStrip(LStrip(s))

\* The scans below halve their range instead of stepping through it, so
\* that the depth of the evaluation is logarithmic in the length of the text.

\* a word of s starts at i, ends at i
IsWordStart(s, i) == s[i] \notin Whitespace /\ (i = 1 \/ s[i - 1] \in Whitespace)

IsWordEnd(s, i) == s[i] \notin Whitespace /\ (i = Len(s) \/ s[i + 1] \in Whitespace)

\* the first position of lo..hi at which a word ends, 0 when there is none
RECURSIVE FirstWordEnd(_, _, _)
FirstWordEnd(s, lo, hi) ==
    IF lo > hi THEN 0
    ELSE IF lo = hi THEN (IF IsWordEnd(s, lo) THEN lo ELSE 0)
    ELSE LET mid == (lo + hi) \div 2
             left == FirstWordEnd(s, lo, mid)
         IN  IF left # 0 THEN left ELSE FirstWordEnd(s, mid + 1, hi)

\* the words of s that start in lo..hi, in order
RECURSIVE WordsIn(_, _, _)
WordsIn(s, lo, hi) ==
    IF lo > hi THEN <<>>
    ELSE IF lo = hi
         THEN (IF IsWordStart(s, lo)
               THEN <<SubSeq(s, lo, FirstWordEnd(s, lo, Len(s)))>>
               ELSE <<>>)
    ELSE LET mid == (lo + hi) \div 2
         IN  WordsIn(s, lo, mid) \o WordsIn(s, mid + 1, hi)

\* str.split(): the maximal runs of non-whitespace characters
Split(s) == WordsIn(s, 1, Len(s))

\* position i lies in a match of \n\n+
InSeparator(s, i) ==
    /\ s[i] = "\n"
    /\ \/ i > 1 /\ s[i - 1] = "\n"
       \/ i < Len(s) /\ s[i + 1] = "\n"

IsPieceStart(s, i) == ~InSeparator(s, i) /\ (i = 1 \/ InSeparator(s, i - 1))

IsPieceEnd(s, i) == ~InSeparator(s, i) /\ (i = Len(s) \/ InSeparator(s, i + 1))

\* the first position of lo..hi at which a piece between separators ends
RECURSIVE FirstPieceEnd(_, _, _)
FirstPieceEnd(s, lo, hi) ==
    IF lo > hi THEN 0
    ELSE IF lo = hi THEN (IF IsPieceEnd(s, lo) THEN lo ELSE 0)
    ELSE LET mid == (lo + hi) \div 2
             left == FirstPieceEnd(s, lo, mid)
         IN  IF left # 0 THEN left ELSE FirstPieceEnd(s, mid + 1, hi)

\* the non-empty pieces of s that start in lo..hi, in order
RECURSIVE PiecesIn(_, _, _)
PiecesIn(s, lo, hi) ==
    IF lo > hi THEN <<>>
    ELSE IF lo = hi
         THEN (IF IsPieceStart(s, lo)
               THEN <<SubSeq(s, lo, FirstPieceEnd(s, lo, Len(s)))>>
               ELSE <<>>)
    ELSE LET mid == (lo + hi) \div 2
         IN  PiecesIn(s, lo, mid) \o PiecesIn(s, mid + 1, hi)

\* re.split(r'\n\n+', text): a separator at the start or the end of the
\* text gives an empty first or last piece, and the empty text one empty piece
SplitParagraphs(s) ==
    (IF s = <<>> \/ InSeparator(s, 1) THEN << <<>> >> ELSE <<>>)
    \o PiecesIn(s, 1, Len(s))
    \o (IF s # <<>> /\ InSeparator(s, Len(s)) THEN << <<>> >> ELSE <<>>)

\* s[-n:] for n > 0
LastN(s, n) == IF n >= Len(s) THEN s ELSE SubSeq(s, Len(s) - n + 1, Len(s))

(***************************************************************************)
(* chunk_text                                                              *)
(***************************************************************************)
\* the buffer kept after a paragraph-level emit
SeedParagraph(current_chunk, ovl) ==
    IF ovl > 0 /\ Len(current_chunk) > ovl
    THEN LastN(current_chunk, ovl)
    ELSE <<>>

\* a word-level emit that starts the next buffer empty
SeedWordEmpty(temp_chunk, ovl) == <<>>

\* the buffer kept after a word-level emit
SeedWord(temp_chunk, ovl) ==
    IF ovl > 0 THEN LastN(temp_chunk, ovl) ELSE <<>>

\* current_chunk += "\n\n" + para if current_chunk else para
AddParagraph(current_chunk, para) ==
    IF current_chunk # <<>> THEN current_chunk \o <<"\n", "\n">> \o para ELSE para

\* temp_chunk += " " + word if temp_chunk else word
AddWord(temp_chunk, word) ==
    IF temp_chunk # <<>> THEN temp_chunk \o <<" ">> \o word ELSE word

\* the record of one emit before the end of the text: the loop it happened
\* in, the buffer as it was emitted and the buffer the loop goes on with
Emit(level, buffer, seed) == [level |-> level, buffer |-> buffer, seed |-> seed]

\* one iteration of the word loop without the test that the buffer holds
\* something before it is emitted
WordStepEmittingEmpty(st, word, size, ovl) ==
    LET emit == Len(st.buf) + Len(word) + 1 > size
        out1 == IF emit THEN Append(st.out, Strip(st.buf)) ELSE st.out
        buf1 == IF emit THEN SeedWord(st.buf, ovl) ELSE st.buf
    IN  [out |-> out1, buf |-> AddWord(buf1, word),
         emits |-> IF emit THEN Append(st.emits, Emit("word", st.buf, buf1))
                   ELSE st.emits]

\* one iteration of the word loop; st = [out, buf, emits]: the chunks so
\* far, the buffer, and the emits so far
WordStep(st, word, size, ovl) ==
    LET emit == Len(st.buf) + Len(word) + 1 > size /\ st.buf # <<>>
        out1 == IF emit THEN Append(st.out, Strip(st.buf)) ELSE st.out
        buf1 == IF emit THEN SeedWord(st.buf, ovl) ELSE st.buf
    IN  [out |-> out1, buf |-> AddWord(buf1, word),
         emits |-> IF emit THEN Append(st.emits, Emit("word", st.buf, buf1))
                   ELSE st.emits]

\* the word-by-word split of one over-long paragraph: the loop over the
\* second half of the words continues from the state the first half leaves
RECURSIVE WordLoop(_, _, _, _)
WordLoop(words, st, size, ovl) ==
    IF words = <<>> THEN st
    ELSE IF Len(words) = 1 THEN WordStep(st, words[1], size, ovl)
    \* (the loop only appends to chunks, so the test holds; it makes the
    \* state after the first half a value before the second half starts)
    ELSE LET half == Len(words) \div 2
             st1 == WordLoop(SubSeq(words, 1, half), st, size, ovl)
         IN  IF Len(st1.out) >= Len(st.out)
             THEN WordLoop(SubSeq(words, half + 1, Len(words)), st1, size, ovl)
             ELSE st1

\* one iteration of the paragraph loop on a non-empty stripped paragraph
ParagraphStep(st, para, size, ovl) ==
    IF Len(st.buf) + Len(para) + 2 > size
    THEN LET emit == st.buf # <<>>
             out1 == IF emit THEN Append(st.out, Strip(st.buf)) ELSE st.out
             buf1 == IF emit THEN SeedParagraph(st.buf, ovl) ELSE st.buf
             emits1 == IF emit
                       THEN Append(st.emits, Emit("paragraph", st.buf, buf1))
                       ELSE st.emits
         IN  IF Len(para) > size
             THEN WordLoop(Split(para),
                           [out |-> out1, buf |-> buf1, emits |-> emits1],
                           size, ovl)
             ELSE [out |-> out1, buf |-> AddParagraph(buf1, para),
                   emits |-> emits1]
    ELSE [out |-> st.out, buf |-> AddParagraph(st.buf, para), emits |-> st.emits]

RECURSIVE ParagraphLoop(_, _, _, _)
ParagraphLoop(paragraphs, st, size, ovl) ==
    IF paragraphs = <<>> THEN st
    ELSE LET para == Strip(Head(paragraphs))
         IN  IF para = <<>>
             THEN ParagraphLoop(Tail(paragraphs), st, size, ovl)
             ELSE ParagraphLoop(Tail(paragraphs),
                                ParagraphStep(st, para, size, ovl), size, ovl)

\* chunk_text up to its return: out is the list it returns
ChunkRun(txt, size, ovl) ==
    LET st == ParagraphLoop(SplitParagraphs(txt),
                            [out |-> <<>>, buf |-> <<>>, emits |-> <<>>],
                            size, ovl)
    IN  IF Strip(st.buf) # <<>>
        THEN [st EXCEPT !.out = Append(st.out, Strip(st.buf))]
        ELSE st

ChunkText(txt, size, ovl) == ChunkRun(txt, size, ovl).out

(***************************************************************************)
(* BM25Index.tokenize                                                      *)
(***************************************************************************)
UpperChars ==
    <<"A", "B", "C", "D", "E", "F", "G", "H", "I", "J", "K", "L", "M",
      "N", "O", "P", "Q", "R", "S", "T", "U", "V", "W", "X", "Y", "Z">>

LowerChars ==
    <<"a", "b", "c", "d", "e", "f", "g", "h", "i", "j", "k", "l", "m",
      "n", "o", "p", "q", "r", "s", "t", "u", "v", "w", "x", "y", "z">>

Digits == {"0", "1", "2", "3", "4", "5", "6", "7", "8", "9"}

\* the class [a-z0-9]
AlNum == {LowerChars[i] : i \in 1..26} \cup Digits

\* the class \w of a lowercased text
WordChars == AlNum \cup {"_"}

LowerChar(c) ==
    IF \E i \in 1..26 : UpperChars[i] = c
    THEN LowerChars[CHOOSE i \in 1..26 : UpperChars[i] = c]
    ELSE c

\* str.lower()
Lower(s) == [i \in 1..Len(s) |-> LowerChar(s[i])]

Stopwords ==
    {<<"a">>, <<"a","n">>, <<"a","n","d">>, <<"a","r","e">>, <<"a","s">>,
     <<"a","t">>, <<"b","e">>, <<"b","y">>, <<"f","o","r">>,
     <<"f","r","o","m">>, <<"h","a","s">>, <<"h","e">>, <<"i","n">>,
     <<"i","s">>, <<"i","t">>, <<"i","t","s">>, <<"o","f">>, <<"o","n">>,
     <<"t","h","a","t">>, <<"t","h","e">>, <<"t","o">>, <<"w","a","s">>,
     <<"w","e","r","e">>, <<"w","i","l","l">>, <<"w","i","t","h">>,
     <<"t","h","i","s">>, <<"b","u","t">>, <<"t","h","e","y">>,
     <<"h","a","v","e">>, <<"h","a","d">>, <<"w","h","a","t">>,
     <<"w","h","e","n">>, <<"w","h","e","r","e">>, <<"w","h","o">>,
     <<"w","h","i","c","h">>, <<"w","h","y">>, <<"h","o","w">>,
     <<"a","l","l">>, <<"e","a","c","h">>, <<"e","v","e","r","y">>,
     <<"b","o","t","h">>, <<"f","e","w">>, <<"m","o","r","e">>,
     <<"m","o","s","t">>, <<"o","t","h","e","r">>, <<"s","o","m","e">>,
     <<"s","u","c","h">>, <<"n","o">>, <<"n","o","r">>, <<"n","o","t">>,
     <<"o","n","l","y">>, <<"o","w","n">>, <<"s","a","m","e">>, <<"s","o">>,
     <<"t","h","a","n">>, <<"t","o","o">>, <<"v","e","r","y">>,
     <<"c","a","n">>, <<"j","u","s","t">>, <<"s","h","o","u","l","d">>,
     <<"n","o","w">>}

\* \b before position i (1..Len(s)+1)
Boundary(s, i) ==
    LET w(k) == k \in 1..Len(s) /\ s[k] \in WordChars
    IN  w(i - 1) # w(i)

\* last positions e at which \b[a-z0-9][-a-z0-9]*[a-z0-9]\b matches s[i..e]
HyphenatedEnds(s, i) ==
    {e \in (i + 1)..Len(s) :
        /\ Boundary(s, i)
        /\ s[i] \in AlNum
        /\ \A k \in i..e : s[k] \in AlNum \cup {"-"}
        /\ s[e] \in AlNum
        /\ Boundary(s, e + 1)}

\* last positions e at which \b[a-z0-9]+\b matches s[i..e]
PlainEnds(s, i) ==
    {e \in i..Len(s) :
        /\ Boundary(s, i)
        /\ \A k \in i..e : s[k] \in AlNum
        /\ Boundary(s, e + 1)}

SetMax(S) == CHOOSE x \in S : \A y \in S : y <= x

\* the end of the match the regex engine takes at i (greedy, first
\* alternative first), 0 when there is none
MatchEnd(s, i) ==
    LET hyphenated == HyphenatedEnds(s, i)
        plain == PlainEnds(s, i)
    IN  IF hyphenated # {} THEN SetMax(hyphenated)
        ELSE IF plain # {} THEN SetMax(plain)
        ELSE 0

RECURSIVE FindAllFrom(_, _)
FindAllFrom(s, i) ==
    IF i > Len(s) THEN <<>>
    ELSE LET e == MatchEnd(s, i)
         IN  IF e = 0 THEN FindAllFrom(s, i + 1)
             ELSE <<SubSeq(s, i, e)>> \o FindAllFrom(s, e + 1)

\* the filter without the test of the length
KeepTokenAnyLength(t) == t \notin Stopwords

KeepToken(t) == t \notin Stopwords /\ Len(t) > 1

Tokenize(txt) == SelectSeq(FindAllFrom(Lower(txt), 1), KeepToken)

(***************************************************************************)
(* BM25Index.  Document ordinals are 0-based as in the source; sequences   *)
(* are 1-based, so documents[doc_idx + 1] is the source's                  *)
(* documents[doc_idx].  k1 and b are held in quarters (6 is 1.5, 3 is      *)
(* 0.75) and avg_doc_length as a reduced fraction, so that equal floats    *)
(* are equal values.                                                       *)
(***************************************************************************)
DEFAULT_K1 == 6

DEFAULT_B == 3

EmptyMap == [t \in {} |-> 0]

RECURSIVE GCD(_, _)
GCD(m, n) == IF n = 0 THEN m ELSE GCD(n, m % n)

Fraction(n, d) == [num |-> n \div GCD(n, d), den |-> d \div GCD(n, d)]

Zero == [num |-> 0, den |-> 1]

RECURSIVE SumSeq(_)
SumSeq(s) == IF s = <<>> THEN 0 ELSE Head(s) + SumSeq(Tail(s))

\* BM25Index.__init__
NewIndex(k1, b) ==
    [documents |-> <<>>, k1 |-> k1, b |-> b, doc_lengths |-> <<>>,
     avg_doc_length |-> Zero, inverted_index |-> EmptyMap,
     doc_freqs |-> EmptyMap, vocab |-> {}]

Range(s) == {s[i] : i \in 1..Len(s)}

\* Counter(tokens)[term]
CountOf(tokens, term) == Cardinality({i \in 1..Len(tokens) : tokens[i] = term})

\* the assignments before the loop without the one of doc_freqs
BuildResetKeepingFreqs(idx, docs) ==
    [idx EXCEPT !.documents = docs, !.doc_lengths = <<>>,
                !.inverted_index = EmptyMap, !.vocab = {}]

\* build_index, the assignments before the loop
BuildReset(idx, docs) ==
    [idx EXCEPT !.documents = docs, !.doc_lengths = <<>>,
                !.inverted_index = EmptyMap, !.doc_freqs = EmptyMap,
                !.vocab = {}]

\* the update of the posting lists looping over tokens instead of
\* Counter(tokens): one posting per occurrence
AddPostingsPerOccurrence(inverted_index, ord, tokens) ==
    [t \in DOMAIN inverted_index \cup Range(tokens) |->
        LET old == IF t \in DOMAIN inverted_index THEN inverted_index[t] ELSE <<>>
        IN  old \o [i \in 1..CountOf(tokens, t) |-> <<ord, 1>>]]

\* self.inverted_index[term].append((ord, freq)) for the document's terms
AddPostings(inverted_index, ord, tokens) ==
    [t \in DOMAIN inverted_index \cup Range(tokens) |->
        LET old == IF t \in DOMAIN inverted_index THEN inverted_index[t] ELSE <<>>
        IN  IF t \in Range(tokens)
            THEN Append(old, <<ord, CountOf(tokens, t)>>)
            ELSE old]

\* the update of the document frequencies looping over tokens instead of
\* set(tokens)
AddDocFreqsPerOccurrence(doc_freqs, tokens) ==
    [t \in DOMAIN doc_freqs \cup Range(tokens) |->
        LET old == IF t \in DOMAIN doc_freqs THEN doc_freqs[t] ELSE 0
        IN  old + CountOf(tokens, t)]

\* self.doc_freqs[term] += 1 for term in set(tokens)
AddDocFreqs(doc_freqs, tokens) ==
    [t \in DOMAIN doc_freqs \cup Range(tokens) |->
        LET old == IF t \in DOMAIN doc_freqs THEN doc_freqs[t] ELSE 0
        IN  IF t \in Range(tokens) THEN old + 1 ELSE old]

\* build_index, one iteration of the loop over the docs
BuildDoc(idx, docs, ord) ==
    LET tokens == Tokenize(docs[ord + 1].content)
    IN  [idx EXCEPT !.doc_lengths = Append(@, Len(tokens)),
                    !.inverted_index = AddPostings(@, ord, tokens),
                    !.vocab = @ \cup Range(tokens),
                    !.doc_freqs = AddDocFreqs(@, tokens)]

\* the average computed before the loop, while doc_lengths is still empty
BuildAverageBeforeLoop(idx) == [idx EXCEPT !.avg_doc_length = Zero]

\* build_index, the average after the loop
BuildAverage(idx) ==
    [idx EXCEPT !.avg_doc_length =
        IF idx.doc_lengths # <<>>
        THEN Fraction(SumSeq(idx.doc_lengths), Len(idx.doc_lengths))
        ELSE Zero]

RECURSIVE BuildLoop(_, _, _)
BuildLoop(idx, docs, ord) ==
    IF ord >= Len(docs) THEN idx
    ELSE BuildLoop(BuildDoc(idx, docs, ord), docs, ord + 1)

BuildIndex(idx, docs) ==
    BuildAverage(BuildLoop(BuildReset(idx, docs), docs, 0))

(***************************************************************************)
(* _bm25_score.  Scores are fixed-point: LnTable[n] is ln(n) * 10^5        *)
(* rounded, the idf argument (N - df + 0.5)/(df + 0.5) + 1 is              *)
(* (2N + 2)/(2df + 1), and tf_norm is the exact fraction                   *)
(* 4*tf*(k1+4)*avg / (16*tf*avg + k1*((4-b)*avg + b*doc_length)) in the    *)
(* quarter units of k1 and b.                                              *)
(***************************************************************************)
LnTable ==
    <<0, 69315, 109861, 138629, 160944, 179176, 194591, 207944, 219722,
      230259, 239790, 248491, 256495, 263906, 270805, 277259, 283321,
      289037, 294444, 299573>>

\* the classical idf log((N - df + 0.5) / (df + 0.5)), without the + 1
IdfUnsmoothed(num_docs, df) ==
    LnTable[2 * num_docs - 2 * df + 1] - LnTable[2 * df + 1]

\* math.log((num_docs - df + 0.5) / (df + 0.5) + 1)
Idf(num_docs, df) == LnTable[2 * num_docs + 2] - LnTable[2 * df + 1]

\* the numerator without its factor tf
TfNormNumWithoutTf(idx, tf) == 4 * (idx.k1 + 4) * idx.avg_doc_length.num

TfNormNum(idx, tf) == 4 * tf * (idx.k1 + 4) * idx.avg_doc_length.num

TfNormDen(idx, tf, doc_length) ==
    16 * tf * idx.avg_doc_length.num
    + idx.k1 * ((4 - idx.b) * idx.avg_doc_length.num
                + idx.b * doc_length * idx.avg_doc_length.den)

\* the loop over the query terms ending after the first term
MatchingFirstTerm(query_terms, doc_term_freqs) ==
    IF query_terms # <<>> /\ Head(query_terms) \in DOMAIN doc_term_freqs
    THEN <<Head(query_terms)>>
    ELSE <<>>

\* the terms of the query, occurrence by occurrence, that the document holds
Matching(query_terms, doc_term_freqs) ==
    SelectSeq(query_terms, LAMBDA t : t \in DOMAIN doc_term_freqs)

\* IndexError on doc_lengths[ord], ZeroDivisionError on the divisions
ScoreRaises(idx, query_terms, ord, doc_term_freqs) ==
    \/ ord + 1 > Len(idx.doc_lengths)
    \/ /\ Matching(query_terms, doc_term_freqs) # <<>>
       /\ \/ idx.avg_doc_length.num = 0
          \/ \E i \in 1..Len(query_terms) :
                /\ query_terms[i] \in DOMAIN doc_term_freqs
                /\ TfNormDen(idx, doc_term_freqs[query_terms[i]],
                             idx.doc_lengths[ord + 1]) = 0

TermScore(idx, ord, term, tf) ==
    LET df == IF term \in DOMAIN idx.doc_freqs THEN idx.doc_freqs[term] ELSE 0
    IN  (Idf(Len(idx.documents), df) * TfNormNum(idx, tf))
            \div TfNormDen(idx, tf, idx.doc_lengths[ord + 1])

RECURSIVE SumScores(_, _, _, _)
SumScores(idx, terms, ord, doc_term_freqs) ==
    IF terms = <<>> THEN 0
    ELSE TermScore(idx, ord, Head(terms), doc_term_freqs[Head(terms)])
         + SumScores(idx, Tail(terms), ord, doc_term_freqs)

Bm25Score(idx, query_terms, ord, doc_term_freqs) ==
    SumScores(idx, Matching(query_terms, doc_term_freqs), ord, doc_term_freqs)

(***************************************************************************)
(* BM25Index.search                                                        *)
(***************************************************************************)
\* the (term, ord, freq) triples in the order the two loops visit them
RECURSIVE QueryPostings(_, _)
QueryPostings(idx, query_terms) ==
    IF query_terms = <<>> THEN <<>>
    ELSE LET term == Head(query_terms)
             ps == IF term \in DOMAIN idx.inverted_index
                   THEN idx.inverted_index[term] ELSE <<>>
         IN  [i \in 1..Len(ps) |->
                [term |-> term, doc_idx |-> ps[i][1], freq |-> ps[i][2]]]
             \o QueryPostings(idx, Tail(query_terms))

\* the keys of candidate_docs in insertion order
RECURSIVE CandidateOrder(_, _)
CandidateOrder(hits, seen) ==
    IF hits = <<>> THEN <<>>
    ELSE IF Head(hits).doc_idx \in seen
         THEN CandidateOrder(Tail(hits), seen)
         ELSE <<Head(hits).doc_idx>>
              \o CandidateOrder(Tail(hits), seen \cup {Head(hits).doc_idx})

\* candidate_docs[ord]: the last assignment of each term wins
CandidateTermFreqs(hits, ord) ==
    LET mine == {i \in 1..Len(hits) : hits[i].doc_idx = ord}
    IN  [t \in {hits[i].term : i \in mine} |->
            hits[SetMax({i \in mine : hits[i].term = t})].freq]

RECURSIVE InsertByScore(_, _)
InsertByScore(sorted, x) ==
    IF sorted = <<>> THEN <<x>>
    ELSE IF Head(sorted).score >= x.score
         THEN <<Head(sorted)>> \o InsertByScore(Tail(sorted), x)
         ELSE <<x>> \o sorted

\* scored_docs.sort(key=score, reverse=True): stable on the candidate order
RECURSIVE SortByScore(_)
SortByScore(scored) ==
    IF scored = <<>> THEN <<>>
    ELSE InsertByScore(SortByScore(SubSeq(scored, 1, Len(scored) - 1)),
                       scored[Len(scored)])

\* s[:k + 1]: a slice that takes one entry too many
SliceInclusive(s, k) == SubSeq(s, 1, IF k + 1 < Len(s) THEN k + 1 ELSE Len(s))

\* s[:k]
Slice(s, k) ==
    IF k >= 0 THEN SubSeq(s, 1, IF k < Len(s) THEN k ELSE Len(s))
    ELSE SubSeq(s, 1, IF Len(s) + k > 0 THEN Len(s) + k ELSE 0)

SearchResult(doc, score) ==
    [document_id |-> doc.id, content |-> doc.content, source |-> doc.source,
     title |-> doc.title, score |-> score, chunk_index |-> doc.chunk_index]

Raised == [raised |-> TRUE, results |-> <<>>]

Returned(rs) == [raised |-> FALSE, results |-> rs]

\* search ranking every chunk of the store, without the restriction to the
\* candidates of the posting lists and without the test score > 0
IndexSearchUnfiltered(idx, q, k) ==
    LET query_terms == Tokenize(q)
        hits == QueryPostings(idx, query_terms)
        tfs(d) == CandidateTermFreqs(hits, d)
        scored == [i \in 1..Len(idx.documents) |->
                     [doc_idx |-> i - 1,
                      score |-> Bm25Score(idx, query_terms, i - 1, tfs(i - 1))]]
        top == Slice(SortByScore(scored), k)
    IN  IF query_terms = <<>> THEN Returned(<<>>)
        ELSE Returned([i \in 1..Len(top) |->
                        SearchResult(idx.documents[top[i].doc_idx + 1], top[i].score)])

\* search computing the length normalisation 1 / avg_doc_length once, before
\* it looks for candidates
IndexSearchNormalizingFirst(idx, q, k) ==
    LET query_terms == Tokenize(q)
        hits == QueryPostings(idx, query_terms)
        cands == CandidateOrder(hits, {})
        tfs(d) == CandidateTermFreqs(hits, d)
        scored == [i \in 1..Len(cands) |->
                     [doc_idx |-> cands[i],
                      score |-> Bm25Score(idx, query_terms, cands[i], tfs(cands[i]))]]
        top == Slice(SortByScore(SelectSeq(scored, LAMBDA x : x.score > 0)), k)
    IN  IF idx.avg_doc_length.num = 0 THEN Raised
        ELSE IF query_terms = <<>> THEN Returned(<<>>)
        ELSE Returned([i \in 1..Len(top) |->
                        SearchResult(idx.documents[top[i].doc_idx + 1], top[i].score)])

\* BM25Index.search(query, top_k)
IndexSearch(idx, q, k) ==
    LET query_terms == Tokenize(q)
        hits == QueryPostings(idx, query_terms)
        cands == CandidateOrder(hits, {})
        tfs(d) == CandidateTermFreqs(hits, d)
        scored == [i \in 1..Len(cands) |->
                     [doc_idx |-> cands[i],
                      score |-> Bm25Score(idx, query_terms, cands[i], tfs(cands[i]))]]
        top == Slice(SortByScore(SelectSeq(scored, LAMBDA x : x.score > 0)), k)
    IN  IF query_terms = <<>> THEN Returned(<<>>)
        ELSE IF \E i \in 1..Len(cands) :
                    ScoreRaises(idx, query_terms, cands[i], tfs(cands[i]))
             THEN Raised
        ELSE IF \E i \in 1..Len(top) : top[i].doc_idx + 1 > Len(idx.documents)
             THEN Raised
        ELSE Returned([i \in 1..Len(top) |->
                        SearchResult(idx.documents[top[i].doc_idx + 1], top[i].score)])

\* the posting map after a candidate loop that reads
\* self.inverted_index[term] without the test "term in": on a
\* defaultdict(list) the subscript inserts an absent key with an empty list
PostingsAfterSearchUnguarded(inverted_index, query_terms) ==
    [t \in DOMAIN inverted_index \cup Range(query_terms) |->
        IF t \in DOMAIN inverted_index THEN inverted_index[t] ELSE <<>>]

\* the posting map after the candidate loop: the subscript is evaluated
\* for the query terms that are keys already
PostingsAfterSearch(inverted_index, query_terms) ==
    [t \in DOMAIN inverted_index
            \cup {u \in Range(query_terms) : u \in DOMAIN inverted_index} |->
        inverted_index[t]]

\* the object after search(q, k): the scorer reads doc_lengths, documents
\* and doc_freqs.get(term, 0), and candidate_docs is a local
IndexAfterSearch(idx, q) ==
    IF Tokenize(q) = <<>> THEN idx
    ELSE [idx EXCEPT !.inverted_index = PostingsAfterSearch(@, Tokenize(q))]

(***************************************************************************)
(* load_all_documents.  source_files is the listing the loader walks: the  *)
(* sorted markdown files of the research directory, then the sorted JSON   *)
(* files of the data directory, each with its text (for JSON the text      *)
(* json_to_text gives) and the title the loader derives for it.            *)
(***************************************************************************)
CHUNK_SIZE == 500

CHUNK_OVERLAP == 50

DEFAULT_TOP_K == 5

DocumentFields == {"id", "content", "source", "title", "chunk_index", "metadata"}

\* the Document records of one file's chunks with ids that start again
\* from 0 in every file
FileDocumentsCountingPerFile(file, file_chunks, doc_id) ==
    [i \in 1..Len(file_chunks) |->
        [id |-> <<"doc_", i - 1>>,
         content |-> file_chunks[i],
         source |-> file.source,
         title |-> file.title,
         chunk_index |-> i - 1,
         metadata |-> [file_type |-> file.file_type,
                       total_chunks |-> Len(file_chunks)]]]

\* the Document records of one file's chunks, ids counting on from doc_id
FileDocuments(file, file_chunks, doc_id) ==
    [i \in 1..Len(file_chunks) |->
        [id |-> <<"doc_", doc_id + i - 1>>,
         content |-> file_chunks[i],
         source |-> file.source,
         title |-> file.title,
         chunk_index |-> i - 1,
         metadata |-> [file_type |-> file.file_type,
                       total_chunks |-> Len(file_chunks)]]]

RECURSIVE LoadFiles(_, _, _, _)
LoadFiles(files, doc_id, size, ovl) ==
    IF files = <<>> THEN <<>>
    ELSE LET file_chunks == ChunkText(Head(files).text, size, ovl)
         IN  FileDocuments(Head(files), file_chunks, doc_id)
             \o LoadFiles(Tail(files), doc_id + Len(file_chunks), size, ovl)

LoadAllDocuments(files) == LoadFiles(files, 0, CHUNK_SIZE, CHUNK_OVERLAP)

(***************************************************************************)
(* BM25Index.save and BM25Index.load.  An artifact is missing, corrupt     *)
(* (its parser raises), or holds the object that was dumped; a dict is a   *)
(* record, so a missing key is a missing field.                            *)
(***************************************************************************)
Missing == [kind |-> "missing"]

Corrupt == [kind |-> "corrupt"]

\* dataclasses.asdict(doc)
AsDict(doc) == [f \in DocumentFields |-> doc[f]]

\* save writing the default parameters instead of the object's
IndexDataDefaultParams(idx) ==
    [kind |-> "json",
     obj |-> [documents |-> [i \in 1..Len(idx.documents) |-> AsDict(idx.documents[i])],
              k1 |-> DEFAULT_K1,
              b |-> DEFAULT_B]]

\* the metadata artifact save writes first
IndexData(idx) ==
    [kind |-> "json",
     obj |-> [documents |-> [i \in 1..Len(idx.documents) |-> AsDict(idx.documents[i])],
              k1 |-> idx.k1,
              b |-> idx.b]]

\* save dumping the structures with the length vector left out (empty)
IndexStructuresWithoutLengths(idx) ==
    [kind |-> "pickle",
     obj |-> [doc_lengths |-> <<>>,
              avg_doc_length |-> idx.avg_doc_length,
              inverted_index |-> idx.inverted_index,
              doc_freqs |-> idx.doc_freqs,
              vocab |-> idx.vocab]]

\* the binary artifact save writes second
IndexStructures(idx) ==
    [kind |-> "pickle",
     obj |-> [doc_lengths |-> idx.doc_lengths,
              avg_doc_length |-> idx.avg_doc_length,
              inverted_index |-> idx.inverted_index,
              doc_freqs |-> idx.doc_freqs,
              vocab |-> idx.vocab]]

Exists(file) == file.kind # "missing"

\* Document(**doc) accepts exactly the fields of the dataclass
DocumentAccepts(d) == DOMAIN d = DocumentFields

\* the assignments self.<key> = obj[key], in order, up to the first KeyError
RECURSIVE AssignKeys(_, _, _)
AssignKeys(idx, obj, keys) ==
    IF keys = <<>> THEN [ret |-> "True", index |-> idx]
    ELSE IF Head(keys) \notin DOMAIN obj THEN [ret |-> "raise", index |-> idx]
    ELSE AssignKeys([idx EXCEPT ![Head(keys)] = obj[Head(keys)]], obj, Tail(keys))

StructureKeys == <<"doc_lengths", "avg_doc_length", "inverted_index", "doc_freqs", "vocab">>

\* the second half of load: the binary artifact
LoadStructures(idx, embedding) ==
    IF embedding.kind # "pickle" THEN [ret |-> "raise", index |-> idx]
    ELSE AssignKeys(idx, embedding.obj, StructureKeys)

\* the first half of load: the metadata artifact
LoadIndexData(idx, index_data) ==
    IF index_data.kind # "json" THEN [ret |-> "raise", index |-> idx]
    ELSE IF "documents" \notin DOMAIN index_data.obj THEN [ret |-> "raise", index |-> idx]
    ELSE IF \E i \in 1..Len(index_data.obj.documents) :
                ~DocumentAccepts(index_data.obj.documents[i])
         THEN [ret |-> "raise", index |-> idx]
    ELSE AssignKeys([idx EXCEPT !.documents = index_data.obj.documents],
                    index_data.obj, <<"k1", "b">>)

\* BM25Index.load: ret is "True", "False" or "raise"; index is the object after
Load(idx, index_data, embedding) ==
    IF ~Exists(index_data) \/ ~Exists(embedding) THEN [ret |-> "False", index |-> idx]
    ELSE LET first == LoadIndexData(idx, index_data)
         IN  IF first.ret = "raise" THEN first
             ELSE LoadStructures(first.index, embedding)

(***************************************************************************)
(* The variables by specification, and the values the variables a          *)
(* specification does not use keep.                                        *)
(***************************************************************************)
chunkVars == <<text, chunk_size, overlap, chunks, chunk_pc, returned_tokens, token_pc>>

indexVars == <<index, index_file, embedding_file, pc, prior>>

searchOnly == <<query, top_k, results>>

facadeOnly == <<loaded, source_files, call, documents, doc_idx, observed>>

NoResults == [raised |-> FALSE, results |-> <<>>]

NoCall ==
    [op |-> "none", force |-> FALSE, query |-> <<>>, ready |-> FALSE,
     damaged |-> FALSE, valid |-> FALSE, load_ret |-> "none", built |-> FALSE,
     saved |-> FALSE, scored |-> "no", outcome |-> "none"]

NoObservation == [query |-> <<>>, outcome |-> NoResults]

vars ==
    <<text, chunk_size, overlap, chunks, chunk_pc, returned_tokens, token_pc,
      index, index_file,
      embedding_file, pc, prior, query, top_k, results, loaded, source_files,
      call, documents, doc_idx, observed>>

\* the variables a specification does not use keep these values
ChunkUnused ==
    /\ text = <<>>
    /\ chunk_size = CHUNK_SIZE
    /\ overlap = CHUNK_OVERLAP
    /\ chunks = <<>>
    /\ chunk_pc = "unused"
    /\ returned_tokens = <<>>
    /\ token_pc = "unused"

SearchUnused ==
    /\ query = <<>>
    /\ top_k = 0
    /\ results = NoResults

FacadeUnused ==
    /\ loaded = FALSE
    /\ source_files = <<>>
    /\ call = NoCall
    /\ documents = <<>>
    /\ doc_idx = 0
    /\ observed = NoObservation

IndexUnused ==
    /\ index = NewIndex(DEFAULT_K1, DEFAULT_B)
    /\ index_file = Missing
    /\ embedding_file = Missing
    /\ pc = "unused"
    /\ prior = index

(***************************************************************************)
(* SpecSearch: one BM25Index object driven through build_index, search,    *)
(* save and load on every bounded chunk sequence.                          *)
(***************************************************************************)
MaxDocs == 2

MaxTopK == 3

SP == <<" ">>

\* chunk contents: two symmetric two-term chunks, a chunk that repeats a
\* term, and a chunk of stopwords only
ContentPool ==
    {<<"a", "b">> \o SP \o <<"c", "d">>,
     <<"e", "f">> \o SP \o <<"c", "d">>,
     <<"A", "b">> \o SP \o <<"a", "b">> \o SP \o <<"e", "f">>,
     <<"t", "h", "e">>}

Queries ==
    {<<"a", "b">>,
     <<"e", "f">> \o SP \o <<"a", "b">>,
     <<"a", "b">> \o SP \o <<"c", "d">>,
     <<"c", "d">> \o SP \o <<"c", "d">>,
     <<"z", "z">>,
     <<"t", "h", "e">>}

\* (k1, b) in quarters: (1.5, 0.75), (2.0, 0.0), (1.0, 1.0), (0.0, 0.75)
Params == {<<6, 3>>, <<8, 0>>, <<4, 4>>, <<0, 3>>}

\* by how much the claims raise a term frequency
MaxTfRise == 2

ContentSeqs == UNION {[1..n -> ContentPool] : n \in 0..MaxDocs}

\* the corpus of the ranking scenario: three single-chunk documents
DocA ==
    <<"d", "e", "v", "i", "c", "e", " ", "i", "n", "f", "e", "c",
      "t", "i", "o", "n", " ", "s", "i", "t", "e", " ", "c", "l",
      "e", "a", "n", "i", "n", "g", " ", "s", "a", "l", "i", "n",
      "e", " ", "i", "n", "f", "e", "c", "t", "i", "o", "n", " ",
      "d", "a", "i", "l", "y">>

DocB ==
    <<"w", "i", "r", "e", " ", "t", "a", "n", "g", "l", "e", "d",
      " ", "c", "a", "b", "l", "e", " ", "b", "u", "l", "k", "y",
      " ", "d", "e", "v", "i", "c", "e", " ", "w", "i", "r", "e">>

DocC ==
    <<"c", "o", "m", "p", "l", "e", "t", "e", "l", "y", " ", "u",
      "n", "r", "e", "l", "a", "t", "e", "d", " ", "c", "o", "n",
      "t", "e", "n", "t", " ", "a", "b", "o", "u", "t", " ", "c",
      "o", "o", "k", "i", "n", "g", " ", "r", "e", "c", "i", "p",
      "e", "s">>

ScenarioCorpus == <<DocA, DocB, DocC>>

\* "infection device"
ScenarioQuery ==
    <<"i", "n", "f", "e", "c", "t", "i", "o", "n", " ", "d", "e",
      "v", "i", "c", "e">>

\* the chunk records of one source whose chunks have these contents
MakeChunks(contents) ==
    FileDocuments([source |-> "research/notes.md", title |-> "Notes",
                   file_type |-> "markdown"], contents, 0)

SearchInit ==
    /\ \E p \in Params : index = NewIndex(p[1], p[2])
    /\ index_file = Missing
    /\ embedding_file = Missing
    /\ prior = index
    /\ pc = "new"
    /\ query = <<>>
    /\ top_k = 0
    /\ results = NoResults
    /\ ChunkUnused
    /\ FacadeUnused

\* no search has been made on the object as it is now; a search leaves the
\* object alone, so one search per object state reaches every outcome
Unsearched == query = <<>>

\* index.build_index(documents); the behaviour ends with a build on a loaded
\* object
SBuild(contents) ==
    /\ pc \in {"new", "built", "loaded"}
    /\ Unsearched
    /\ index' = BuildIndex(index, MakeChunks(contents))
    /\ prior' = index'
    /\ pc' = IF pc = "loaded" THEN "rebuilt" ELSE "built"
    /\ query' = <<>>
    /\ top_k' = 0
    /\ results' = NoResults
    /\ UNCHANGED <<index_file, embedding_file>>
    /\ UNCHANGED <<chunkVars, facadeOnly>>

\* results = index.search(q, k)
SSearch(q, k) ==
    /\ pc \in {"new", "built", "loaded"}
    /\ Unsearched
    /\ query' = q
    /\ top_k' = k
    /\ results' = IndexSearch(index, q, k)
    /\ index' = IndexAfterSearch(index, q)
    /\ UNCHANGED <<index_file, embedding_file, prior, pc>>
    /\ UNCHANGED <<chunkVars, facadeOnly>>

\* index.save(index_path, embedding_path); prior remembers the saved object
SSave ==
    /\ pc = "built"
    /\ Unsearched
    /\ index_file' = IndexData(index)
    /\ embedding_file' = IndexStructures(index)
    /\ prior' = index
    /\ pc' = "saved"
    /\ query' = <<>>
    /\ top_k' = 0
    /\ results' = NoResults
    /\ UNCHANGED index
    /\ UNCHANGED <<chunkVars, facadeOnly>>

\* a fresh BM25Index(k1, b) to load into
SConstruct(p) ==
    /\ pc = "saved"
    /\ index' = NewIndex(p[1], p[2])
    /\ pc' = "fresh"
    /\ UNCHANGED <<index_file, embedding_file, prior, query, top_k, results>>
    /\ UNCHANGED <<chunkVars, facadeOnly>>

\* index.load(index_path, embedding_path)
SLoad ==
    /\ pc = "fresh"
    /\ LET r == Load(index, index_file, embedding_file)
       IN  /\ index' = r.index
           /\ pc' = IF r.ret = "True" THEN "loaded" ELSE "load_failed"
    /\ UNCHANGED <<index_file, embedding_file, prior, query, top_k, results>>
    /\ UNCHANGED <<chunkVars, facadeOnly>>

SearchNext ==
    \/ \E contents \in ContentSeqs \cup {ScenarioCorpus} : SBuild(contents)
    \/ \E q \in Queries \cup {ScenarioQuery}, k \in 0..MaxTopK : SSearch(q, k)
    \/ SSave
    \/ \E p \in Params : SConstruct(p)
    \/ SLoad

SpecSearch == SearchInit /\ [][SearchNext]_vars

(***************************************************************************)
(* Claims on the index object (SpecSearch).                                *)
(***************************************************************************)
\* the ordinal of a result's chunk: its id is doc_<ordinal> in these corpora
Ordinal(result) == result.document_id[2]

\* C1: the results are in descending score order, and results of equal
\* score are in ascending order of their document ordinal.
C1_ScoreThenOrdinal ==
    \A i, j \in 1..Len(results.results) :
        i < j =>
            \/ results.results[i].score > results.results[j].score
            \/ /\ results.results[i].score = results.results[j].score
               /\ Ordinal(results.results[i]) < Ordinal(results.results[j])

\* C8: save followed by load into a fresh index, whatever k1 and b it was
\* constructed with, succeeds and reproduces the saved object field by
\* field, and a search on the loaded object returns what the same search
\* returns on the saved one.
C8_RoundTrip ==
    /\ pc # "load_failed"
    /\ pc = "loaded" =>
        /\ index = prior
        /\ ~Unsearched => results = IndexSearch(prior, query, top_k)

\* C8 witness: an index of two chunks built with other than the default
\* parameters was saved, loaded, and searched with a ranked result.
C8_Witness ==
    /\ pc = "loaded"
    /\ index.k1 # DEFAULT_K1
    /\ Len(index.documents) = 2
    /\ Len(results.results) = 2
    /\ results.results[1].score > results.results[2].score

\* C11: a search on an index of zero chunks (average length 0) returns the
\* empty list without raising, whatever the query, and a search whose query
\* tokenizes to nothing returns the empty list on any index.
C11_NoMatchReturnsEmpty ==
    (~Unsearched /\ (index.documents = <<>> \/ Tokenize(query) = <<>>))
        => results = Returned(<<>>)

\* C11 witness: a query with terms was searched on an index of zero chunks
\* whose average length is 0.
C11_Witness ==
    /\ index.documents = <<>>
    /\ index.avg_doc_length = Zero
    /\ Tokenize(query) # <<>>
    /\ results = Returned(<<>>)

\* the terms a text tokenizes to
Terms(txt) == Range(Tokenize(txt))

\* C12: every returned chunk holds at least one of the query's terms, and a
\* query none of whose terms is in the vocabulary returns the empty list.
C12_NoFalsePositives ==
    ~Unsearched =>
        LET query_terms == Terms(query)
        IN  /\ \A i \in 1..Len(results.results) :
                  Terms(results.results[i].content) \cap query_terms # {}
            /\ (query_terms \cap index.vocab = {}) => results = Returned(<<>>)

\* C12 witness: top_k exceeds the number of candidates, and a chunk that
\* has terms but none of the query's is left out.
C12_Witness ==
    /\ Len(results.results) = 1
    /\ top_k > 1
    /\ \E i \in 1..Len(index.documents) :
          /\ Terms(index.documents[i].content) # {}
          /\ Terms(index.documents[i].content) \cap Terms(query) = {}

\* s is a prefix of t
IsPrefix(s, t) == Len(s) <= Len(t) /\ s = SubSeq(t, 1, Len(s))

\* C13: search(q, k) for k >= 0 returns at most k results, none for k = 0,
\* and exactly the first k entries of the ranking a larger top_k returns.
C13_TopKBound ==
    ~Unsearched =>
        /\ Len(results.results) <= top_k
        /\ top_k = 0 => results = Returned(<<>>)
        /\ \A k \in top_k..(MaxTopK + 1) :
              LET longer == IndexSearch(index, query, k).results
              IN  /\ IsPrefix(results.results, longer)
                  /\ Len(longer) > Len(results.results)
                        => Len(results.results) = top_k

\* C13 witness: top_k = 1 cut a ranking of two entries down to its first.
C13_Witness ==
    /\ top_k = 1
    /\ Len(results.results) = 1
    /\ Len(IndexSearch(index, query, 2).results) = 2

\* the index a fresh object with the same parameters builds from the chunks
FreshBuild(idx) == BuildIndex(NewIndex(idx.k1, idx.b), idx.documents)

\* C14: after build_index, on a new object, on one built before or on one
\* loaded from the artifacts, the object equals field by field the one a
\* fresh object builds from the same chunks, and a search returns what it
\* returns on that one.
C14_BuildWholesale ==
    pc \in {"built", "rebuilt"} =>
        LET fresh == FreshBuild(index)
        IN  /\ index = fresh
            /\ ~Unsearched => results = IndexSearch(fresh, query, top_k)

\* C14 witness: an object loaded with two chunks of shared terms was
\* rebuilt from one chunk.
C14_Witness ==
    /\ pc = "rebuilt"
    /\ Len(index_file.obj.documents) = 2
    /\ \E t \in DOMAIN embedding_file.obj.doc_freqs :
          embedding_file.obj.doc_freqs[t] = 2
    /\ Len(index.documents) = 1
    /\ index.vocab # {}

\* the ranking scenario was run: the three documents indexed with k1 = 1.5
\* and b = 0.75, and "infection device" searched with top_k = 2
ScenarioSearched ==
    /\ [i \in 1..Len(index.documents) |-> index.documents[i].content]
            = ScenarioCorpus
    /\ index.k1 = DEFAULT_K1
    /\ index.b = DEFAULT_B
    /\ query = ScenarioQuery
    /\ top_k = 2

\* C15: the scenario returns exactly [A, B], A with the strictly higher
\* score; C is not returned.
C15_ScenarioRanking ==
    ScenarioSearched =>
        /\ ~results.raised
        /\ Len(results.results) = 2
        /\ results.results[1].content = DocA
        /\ results.results[2].content = DocB
        /\ results.results[1].score > results.results[2].score

\* C15 witness: the scenario was run on a built index and returned.
C15_Witness == ScenarioSearched /\ pc = "built" /\ results.results # <<>>

\* the score of candidate d, whose term frequencies for the query terms
\* are tfs, when the frequency of term t is n higher, everything else as
\* it is
ScoreWithTfRaised(query_terms, d, tfs, t, n) ==
    Bm25Score(index, query_terms, d, [tfs EXCEPT ![t] = @ + n])

\* for some (every) candidate of the last search and query term it holds,
\* P(score with the frequency n higher, score with it n + 1 higher)
SomeTfRise(P(_, _)) ==
    LET query_terms == Tokenize(query)
        hits == QueryPostings(index, query_terms)
        cands == CandidateOrder(hits, {})
    IN  \E i \in 1..Len(cands) :
            LET tfs == CandidateTermFreqs(hits, cands[i])
            IN  \E t \in DOMAIN tfs, n \in 0..(MaxTfRise - 1) :
                    P(ScoreWithTfRaised(query_terms, cands[i], tfs, t, n),
                      ScoreWithTfRaised(query_terms, cands[i], tfs, t, n + 1))

Decreases(before, after) == after < before

Increases(before, after) == after > before

\* C17: for every candidate of a search and every query term it holds,
\* each further occurrence of the term (length, average length, N, df, k1
\* and b as they are) leaves the candidate's score as it is or raises it.
C17_ScoreMonotoneInTf ==
    (~Unsearched /\ ~results.raised) => ~SomeTfRise(Decreases)

\* C17 witness: a search with b strictly between 0 and 1 and k1 > 0 has a
\* candidate whose score a further occurrence of a query term raises.
C17_Witness ==
    /\ ~Unsearched
    /\ index.b = DEFAULT_B
    /\ index.k1 # 0
    /\ SomeTfRise(Increases)

\* build_index has run on the object and nothing has replaced its result
AfterBuild == pc \in {"built", "rebuilt", "saved"}

\* the document ordinals a term's posting list names
PostingOrdinals(idx, t) ==
    IF t \in DOMAIN idx.inverted_index
    THEN {idx.inverted_index[t][i][1] : i \in 1..Len(idx.inverted_index[t])}
    ELSE {}

\* doc_freqs.get(t, 0)
DfOf(idx, t) == IF t \in DOMAIN idx.doc_freqs THEN idx.doc_freqs[t] ELSE 0

\* C23: after build_index the document frequency of every term is the
\* number of distinct ordinals in its posting list, which is the number of
\* chunks that hold the term, however often each holds it.
C23_DocFreqIsPostingCount ==
    AfterBuild =>
        LET held == [n \in 1..Len(index.documents) |->
                        Terms(index.documents[n].content)]
        IN  \A t \in DOMAIN index.doc_freqs \cup DOMAIN index.inverted_index
                     \cup UNION Range(held) :
                /\ DfOf(index, t) = Cardinality(PostingOrdinals(index, t))
                /\ DfOf(index, t)
                      = Cardinality({n \in 1..Len(held) : t \in held[n]})

\* C23 witness: a term that one chunk holds twice and another once has the
\* document frequency 2, and another term of the index has 1.
C23_Witness ==
    /\ AfterBuild
    /\ \E t \in DOMAIN index.doc_freqs :
          /\ index.doc_freqs[t] = 2
          /\ \E i \in 1..Len(index.inverted_index[t]) :
                index.inverted_index[t][i][2] = 2
    /\ \E t \in DOMAIN index.doc_freqs : index.doc_freqs[t] = 1

\* the ordinals of the chunks that hold at least one term of the text
Holders(idx, txt) ==
    LET wanted == Terms(txt)
    IN  {n - 1 : n \in {m \in 1..Len(idx.documents) :
                          Terms(idx.documents[m].content) \cap wanted # {}}}

\* C24: every term of a built index has 0 < df <= N and a smoothed idf
\* argument (2N + 2)/(2df + 1) above 1, so a positive idf; with k1 > 0 and
\* 0 <= b <= 1 every returned score is positive, and a search whose top_k
\* is at least the number of chunks that hold a query term returns exactly
\* those chunks.
C24_PositiveIdf ==
    (AfterBuild \/ pc = "loaded") =>
        /\ \A t \in DOMAIN index.doc_freqs :
              /\ 0 < index.doc_freqs[t]
              /\ index.doc_freqs[t] <= Len(index.documents)
              /\ 2 * Len(index.documents) + 2 > 2 * index.doc_freqs[t] + 1
              /\ Idf(Len(index.documents), index.doc_freqs[t]) > 0
        /\ (~Unsearched /\ index.k1 > 0 /\ index.b \in 0..4) =>
              LET holders == Holders(index, query)
              IN  /\ ~results.raised
                  /\ \A i \in 1..Len(results.results) :
                        results.results[i].score > 0
                  /\ top_k >= Cardinality(holders) =>
                        {Ordinal(results.results[i]) :
                            i \in 1..Len(results.results)} = holders

\* C24 witness: a query term that every chunk of a two-chunk index holds
\* (df = N, where the unsmoothed idf is negative) was searched with k1 > 0,
\* and both chunks came back.
C24_Witness ==
    /\ pc = "built"
    /\ index.k1 > 0
    /\ Len(index.documents) = 2
    /\ \E t \in Terms(query) : DfOf(index, t) = 2
    /\ top_k >= 2
    /\ Len(results.results) = 2

\* C25: a search step leaves the object (chunk records, posting map and
\* its key set, document frequencies, lengths, average, vocabulary, k1, b)
\* and the artifacts as they were, and the same search on the object as the
\* step left it returns the same result.
C25_SearchReadOnly ==
    [][query' # query =>
            /\ index' = index
            /\ DOMAIN index'.inverted_index = DOMAIN index.inverted_index
            /\ index_file' = index_file
            /\ embedding_file' = embedding_file
            /\ results' = IndexSearch(index', query', top_k')]_vars

\* C25 witness: a query with a term the vocabulary lacks and a term it has
\* was searched on a loaded object and returned a chunk.
C25_Witness ==
    /\ pc = "loaded"
    /\ Terms(query) \ index.vocab # {}
    /\ results.results # <<>>
    /\ index = prior

\* C28: on an index that build_index produced, a corpus of chunks without
\* any token included, a posting list exists only when the average length
\* is above 0, so every candidate of a search is scored with an average
\* above 0 and no search raises.
C28_ScorerNeverDividesByZero ==
    (AfterBuild \/ pc = "loaded") =>
        /\ index.inverted_index # EmptyMap => index.avg_doc_length.num > 0
        /\ ~Unsearched =>
              /\ CandidateOrder(QueryPostings(index, Tokenize(query)), {}) # <<>>
                    => index.avg_doc_length.num > 0
              /\ ~results.raised

\* C28 witness: a query with terms was searched on an index of two chunks
\* that tokenize to nothing, whose average length is 0, and returned the
\* empty list.
C28_Witness ==
    /\ pc = "built"
    /\ Len(index.documents) = 2
    /\ index.avg_doc_length = Zero
    /\ Tokenize(query) # <<>>
    /\ results = Returned(<<>>)

\* the sum of the tf values of the postings of these terms that name ord
RECURSIVE TfTotal(_, _, _)
TfTotal(idx, terms, ord) ==
    IF terms = {} THEN 0
    ELSE LET t == CHOOSE x \in terms : TRUE
             ps == idx.inverted_index[t]
         IN  SumSeq([i \in 1..Len(ps) |-> IF ps[i][1] = ord THEN ps[i][2] ELSE 0])
             + TfTotal(idx, terms \ {t}, ord)

\* C30: after build_index every posting list is in strictly ascending
\* order of the document ordinal (so at most one entry per chunk) with
\* every tf >= 1, the tf values of the postings that name a chunk add up to
\* the chunk's recorded length, and the posting map, the document-frequency
\* map and the vocabulary have the same terms.
C30_PostingsWellFormed ==
    AfterBuild =>
        /\ \A t \in DOMAIN index.inverted_index :
              LET ps == index.inverted_index[t]
              IN  /\ \A i \in 1..(Len(ps) - 1) : ps[i][1] < ps[i + 1][1]
                  /\ \A i \in 1..Len(ps) :
                        /\ ps[i][1] \in 0..(Len(index.documents) - 1)
                        /\ ps[i][2] >= 1
        /\ Len(index.doc_lengths) = Len(index.documents)
        /\ \A n \in 1..Len(index.documents) :
              TfTotal(index, DOMAIN index.inverted_index, n - 1)
                  = index.doc_lengths[n]
        /\ DOMAIN index.inverted_index = DOMAIN index.doc_freqs
        /\ DOMAIN index.doc_freqs = index.vocab

\* C30 witness: an object loaded from the artifacts was rebuilt, and a
\* term of the new index has two postings, the first with tf 2.
C30_Witness ==
    /\ pc = "rebuilt"
    /\ Cardinality(index.vocab) >= 3
    /\ \E t \in DOMAIN index.inverted_index :
          /\ Len(index.inverted_index[t]) = 2
          /\ index.inverted_index[t][1][2] = 2


(* the source documents.  initialize runs step by step (the statements of  *)
(* build_index, the two writes of save), so that a crash between the two   *)
(* writes and a search by another caller during a rebuild are behaviours.  *)
(* The artifacts and the sources change from outside only between calls.   *)
(***************************************************************************)
MaxFiles == 2

FilePool ==
    <<[source |-> "research/a.md", title |-> "Alpha", file_type |-> "markdown",
       text |-> <<"a", "b">> \o SP \o <<"c", "d">>],
      [source |-> "data/b.json", title |-> "B", file_type |-> "json",
       text |-> <<"e", "f">> \o SP \o <<"c", "d">>],
      [source |-> "data/c.json", title |-> "C", file_type |-> "json",
       text |-> <<"a", "b">> \o SP \o <<"a", "b">> \o SP \o <<"e", "f">>]>>

Listing(n) == SubSeq(FilePool, 1, IF n < Len(FilePool) THEN n ELSE Len(FilePool))

Listings == {Listing(n) : n \in 0..MaxFiles}

FacadeQueries == {<<"a", "b">>, <<"e", "f">> \o SP \o <<"a", "b">>}

\* an artifact is missing or cannot be parsed
Damaged(index_data, embedding) ==
    \/ index_data.kind \in {"missing", "corrupt"}
    \/ embedding.kind \in {"missing", "corrupt"}

\* the artifacts load completely and describe one build
ValidPersisted(index_data, embedding) ==
    LET r == Load(NewIndex(DEFAULT_K1, DEFAULT_B), index_data, embedding)
    IN  /\ r.ret = "True"
        /\ r.index = BuildIndex(r.index, r.index.documents)

\* the record of a call as it starts: what it was asked and what it found
StartCall(op, force, q) ==
    [op |-> op, force |-> force, query |-> q, ready |-> loaded,
     damaged |-> Damaged(index_file, embedding_file),
     valid |-> ValidPersisted(index_file, embedding_file),
     load_ret |-> "none", built |-> FALSE, saved |-> FALSE, scored |-> "no",
     outcome |-> "running"]

\* initialize's first test: try the persisted index
TriesLoad(force_rebuild, index_data, embedding) ==
    ~force_rebuild /\ Exists(index_data) /\ Exists(embedding)

\* search without its test of self._loaded
NeverInitializes(is_loaded) == FALSE

\* search's first test: if not self._loaded
NeedsInitialize(is_loaded) == ~is_loaded

\* the end of a call: initialize returns; search delegates to index.search
Finish(c, idx, is_loaded) ==
    IF c.op = "search"
    THEN [c EXCEPT !.scored = IF is_loaded THEN "ready" ELSE "unready",
                   !.outcome = IF IndexSearch(idx, c.query, DEFAULT_TOP_K).raised
                               THEN "raised" ELSE "returned"]
    ELSE [c EXCEPT !.outcome = "returned"]

\* the object when the call ends: a search has gone through index.search
AfterCall(c, idx) == IF c.op = "search" THEN IndexAfterSearch(idx, c.query) ELSE idx

\* documents = load_all_documents(), build_index about to start
StartBuild(c) ==
    /\ documents' = LoadAllDocuments(source_files)
    /\ pc' = "build"
    /\ call' = c
    /\ UNCHANGED <<index, loaded, doc_idx>>

\* initialize(force_rebuild) from its first line, up to the load or the
\* call of build_index
Begin(c) ==
    /\ prior' = index
    /\ observed' = NoObservation
    /\ UNCHANGED <<index_file, embedding_file, source_files>>
    /\ IF TriesLoad(c.force, index_file, embedding_file)
       THEN LET r == Load(index, index_file, embedding_file)
            IN  IF r.ret = "True"
                THEN /\ index' = AfterCall(c, r.index)
                     /\ loaded' = TRUE
                     /\ call' = Finish([c EXCEPT !.load_ret = "True"], r.index, TRUE)
                     /\ UNCHANGED <<pc, documents, doc_idx>>
                ELSE IF r.ret = "raise"
                THEN /\ index' = r.index
                     /\ call' = [c EXCEPT !.load_ret = "raise", !.outcome = "raised"]
                     /\ UNCHANGED <<loaded, pc, documents, doc_idx>>
                ELSE StartBuild([c EXCEPT !.load_ret = "False"])
       ELSE StartBuild(c)

\* RegulatorySearchEngine.initialize(force_rebuild)
FacadeInitialize(force_rebuild) ==
    /\ pc = "idle"
    /\ Begin(StartCall("initialize", force_rebuild, <<>>))
    /\ UNCHANGED <<chunkVars, searchOnly>>

\* RegulatorySearchEngine.search(q)
FacadeSearch(q) ==
    /\ pc = "idle"
    /\ IF NeedsInitialize(loaded)
       THEN Begin(StartCall("search", FALSE, q))
       ELSE /\ call' = Finish(StartCall("search", FALSE, q), index, loaded)
            /\ prior' = index
            /\ observed' = NoObservation
            /\ index' = IndexAfterSearch(index, q)
            /\ UNCHANGED <<loaded, index_file, embedding_file,
                           source_files, pc, documents, doc_idx>>
    /\ UNCHANGED <<chunkVars, searchOnly>>

\* build_index: self.documents = documents and the four resets
BuildStart ==
    /\ pc = "build"
    /\ index' = BuildReset(index, documents)
    /\ doc_idx' = 0
    /\ pc' = "build_loop"
    /\ UNCHANGED <<loaded, index_file, embedding_file, source_files, call,
                   documents, prior, observed>>
    /\ UNCHANGED <<chunkVars, searchOnly>>

\* build_index: one document of the loop
BuildNext ==
    /\ pc = "build_loop"
    /\ doc_idx < Len(documents)
    /\ index' = BuildDoc(index, documents, doc_idx)
    /\ doc_idx' = doc_idx + 1
    /\ UNCHANGED <<loaded, index_file, embedding_file, source_files, call,
                   documents, prior, observed, pc>>
    /\ UNCHANGED <<chunkVars, searchOnly>>

\* build_index: the average, after the loop
BuildFinish ==
    /\ pc = "build_loop"
    /\ doc_idx = Len(documents)
    /\ index' = BuildAverage(index)
    /\ call' = [call EXCEPT !.built = TRUE]
    /\ pc' = "save_index"
    /\ UNCHANGED <<loaded, index_file, embedding_file, source_files,
                   documents, doc_idx, prior, observed>>
    /\ UNCHANGED <<chunkVars, searchOnly>>

\* save: the first write
SaveIndexData ==
    /\ pc = "save_index"
    /\ index_file' = IndexData(index)
    /\ pc' = "save_embedding"
    /\ UNCHANGED <<index, loaded, embedding_file, source_files, call,
                   documents, doc_idx, prior, observed>>
    /\ UNCHANGED <<chunkVars, searchOnly>>

\* save: the second write; then self._loaded = True and the call ends
SaveEmbedding ==
    /\ pc = "save_embedding"
    /\ embedding_file' = IndexStructures(index)
    /\ loaded' = TRUE
    /\ call' = Finish([call EXCEPT !.saved = TRUE], index, TRUE)
    /\ pc' = "idle"
    /\ documents' = <<>>
    /\ doc_idx' = 0
    /\ observed' = NoObservation
    /\ index' = AfterCall(call, index)
    /\ UNCHANGED <<index_file, source_files, prior>>
    /\ UNCHANGED <<chunkVars, searchOnly>>

\* another caller's search on the Ready facade while a call is in progress
ConcurrentSearch(q) ==
    /\ pc # "idle"
    /\ loaded
    /\ observed' = [query |-> q, outcome |-> IndexSearch(index, q, DEFAULT_TOP_K)]
    /\ index' = IndexAfterSearch(index, q)
    /\ UNCHANGED <<loaded, index_file, embedding_file, source_files,
                   pc, call, documents, doc_idx, prior>>
    /\ UNCHANGED <<chunkVars, searchOnly>>

\* between calls nothing of a finished call is left but the object and the disk
Forget ==
    /\ call' = NoCall
    /\ observed' = NoObservation
    /\ prior' = index'

\* the source documents are edited
EditSources(files) ==
    /\ pc = "idle"
    /\ files # source_files
    /\ source_files' = files
    /\ UNCHANGED <<index, loaded, index_file, embedding_file, pc, documents, doc_idx>>
    /\ Forget
    /\ UNCHANGED <<chunkVars, searchOnly>>

\* an artifact is deleted
DeleteArtifact ==
    /\ pc = "idle"
    /\ \/ Exists(index_file) /\ index_file' = Missing /\ UNCHANGED embedding_file
       \/ Exists(embedding_file) /\ embedding_file' = Missing /\ UNCHANGED index_file
    /\ UNCHANGED <<index, loaded, source_files, pc, documents, doc_idx>>
    /\ Forget
    /\ UNCHANGED <<chunkVars, searchOnly>>

\* an artifact is truncated or overwritten with garbage
CorruptArtifact ==
    /\ pc = "idle"
    /\ \/ Exists(index_file) /\ index_file' = Corrupt /\ UNCHANGED embedding_file
       \/ Exists(embedding_file) /\ embedding_file' = Corrupt /\ UNCHANGED index_file
    /\ UNCHANGED <<index, loaded, source_files, pc, documents, doc_idx>>
    /\ Forget
    /\ UNCHANGED <<chunkVars, searchOnly>>

DropKey(obj, key) == [k \in DOMAIN obj \ {key} |-> obj[k]]

\* an artifact of another schema: no k1 in the metadata, no vocab in the
\* structures
ForeignArtifact ==
    /\ pc = "idle"
    /\ \/ /\ index_file.kind = "json"
          /\ "k1" \in DOMAIN index_file.obj
          /\ index_file' = [index_file EXCEPT !.obj = DropKey(@, "k1")]
          /\ UNCHANGED embedding_file
       \/ /\ embedding_file.kind = "pickle"
          /\ "vocab" \in DOMAIN embedding_file.obj
          /\ embedding_file' = [embedding_file EXCEPT !.obj = DropKey(@, "vocab")]
          /\ UNCHANGED index_file
    /\ UNCHANGED <<index, loaded, source_files, pc, documents, doc_idx>>
    /\ Forget
    /\ UNCHANGED <<chunkVars, searchOnly>>

\* the process ends (at any step, also between the two writes of save) and
\* a new one constructs RegulatorySearchEngine()
Restart ==
    /\ index' = NewIndex(DEFAULT_K1, DEFAULT_B)
    /\ loaded' = FALSE
    /\ pc' = "idle"
    /\ documents' = <<>>
    /\ doc_idx' = 0
    /\ UNCHANGED <<index_file, embedding_file, source_files>>
    /\ Forget
    /\ UNCHANGED <<chunkVars, searchOnly>>

\* RegulatorySearchEngine.__init__, on a disk with no artifacts yet
Init ==
    /\ index = NewIndex(DEFAULT_K1, DEFAULT_B)
    /\ loaded = FALSE
    /\ index_file = Missing
    /\ embedding_file = Missing
    /\ source_files \in Listings
    /\ pc = "idle"
    /\ call = NoCall
    /\ documents = <<>>
    /\ doc_idx = 0
    /\ prior = index
    /\ observed = NoObservation
    /\ ChunkUnused
    /\ SearchUnused

Next ==
    \/ \E force_rebuild \in BOOLEAN : FacadeInitialize(force_rebuild)
    \/ \E q \in FacadeQueries : FacadeSearch(q)
    \/ BuildStart
    \/ BuildNext
    \/ BuildFinish
    \/ SaveIndexData
    \/ SaveEmbedding
    \/ \E q \in FacadeQueries : ConcurrentSearch(q)
    \/ \E files \in Listings : EditSources(files)
    \/ DeleteArtifact
    \/ CorruptArtifact
    \/ ForeignArtifact
    \/ Restart

Spec == Init /\ [][Next]_vars

(***************************************************************************)
(* Claims on the facade (Spec).  call describes the call in progress or    *)
(* the call that ended last, in the state it ended in.                     *)
(***************************************************************************)
\* C3: load fails soft: it returns True or False and never raises, whatever
\* the artifacts hold.
C3_LoadNeverRaises == call.load_ret # "raise"

\* C4: initialize(False), called directly or by a search on a facade that
\* is not Ready, started while an artifact is missing or corrupt, rebuilds
\* from the sources and ends Ready without raising.
C4_FallsBackToRebuild ==
    (/\ call.op \in {"initialize", "search"}
     /\ ~call.force
     /\ call.op = "search" => ~call.ready
     /\ call.damaged
     /\ pc = "idle")
        => (call.outcome = "returned" /\ call.built /\ loaded)

\* C5: initialize(False) on a Ready facade loads nothing, builds nothing,
\* saves nothing and leaves the index object as it was.
C5_InitializeNoOpWhenReady ==
    (call.op = "initialize" /\ ~call.force /\ call.ready)
        => (/\ pc = "idle"
            /\ call.load_ret = "none"
            /\ ~call.built
            /\ ~call.saved
            /\ index = prior)

\* C6: a search by another caller during a forced rebuild of a Ready facade
\* returns what it returns on the complete prior index or on the complete
\* new index.
C6_RebuildAtomic ==
    (observed # NoObservation /\ call.force /\ call.ready)
        => observed.outcome \in
            {IndexSearch(prior, observed.query, DEFAULT_TOP_K),
             IndexSearch(BuildIndex(prior, documents), observed.query, DEFAULT_TOP_K)}

\* the posting map, the lengths, the frequencies, the average and the
\* vocabulary are those of a build of the object's own chunk records
OneBuild(idx) == idx = BuildIndex(idx, idx.documents)

\* C7: when load reports success the object holds chunk records and index
\* structures of one and the same build (mutually inconsistent artifacts are
\* reported as unavailable).
C7_LoadedIsOneBuild == call.load_ret = "True" => OneBuild(index)

\* C9: an initialize call that has ended either found a valid persisted
\* index with force_rebuild false, and then loaded it without building or
\* writing, or built from the sources, persisted the result and left the
\* facade Ready.
C9_InitializePath ==
    (call.op = "initialize" /\ pc = "idle")
        => IF ~call.force /\ call.valid
           THEN call.load_ret = "True" /\ ~call.built /\ ~call.saved
           ELSE /\ call.built
                /\ call.saved
                /\ call.outcome = "returned"
                /\ loaded

\* C10: a search never reaches the scorer while the facade is not Ready; on
\* a facade that was not Ready it first ran initialize(False) to its end (a
\* successful load, or a build and a save); the facade is Ready after a
\* search that returns; on a Ready facade it loads nothing and builds
\* nothing.
C10_LazyInitialization ==
    call.op = "search" =>
        /\ call.scored # "unready"
        /\ (call.scored = "ready" /\ ~call.ready)
               => (call.load_ret = "True" \/ (call.built /\ call.saved))
        /\ call.outcome = "returned" => (loaded /\ call.scored = "ready")
        /\ call.ready => (call.load_ret = "none" /\ ~call.built /\ pc = "idle")

\* C10 witness: a search on a facade that was not Ready has returned after
\* initialize built and saved the index.
C10_Witness ==
    /\ call.op = "search"
    /\ ~call.ready
    /\ call.built
    /\ call.outcome = "returned"
    /\ Len(index.documents) = 2
    /\ IndexSearch(index, call.query, DEFAULT_TOP_K).results # <<>>

\* C26: a load that does not return True, because it returns False or
\* because it stops part-way, leaves the object (chunk records, k1, b,
\* posting map, document frequencies, lengths, average, vocabulary) as it
\* was before the call.
C26_LoadAllOrNothing ==
    (\/ call.load_ret = "raise"
     \/ call.load_ret = "False" /\ pc = "build")
        => index = prior

\* C27: when an initialize call, made directly or by a search on a facade
\* that was not Ready, has returned, by a load or by a build, and nothing
\* has touched the artifacts since, the two artifacts hold the chunk
\* records, k1, b, postings, document frequencies, lengths and average of
\* the object in memory.
C27_ArtifactsDescribeIndex ==
    (/\ pc = "idle"
     /\ call.outcome = "returned"
     /\ call.op = "initialize" \/ (call.op = "search" /\ ~call.ready))
        => /\ index_file.kind = "json"
           /\ embedding_file.kind = "pickle"
           /\ index_file.obj.documents
                 = [i \in 1..Len(index.documents) |-> AsDict(index.documents[i])]
           /\ index_file.obj.k1 = index.k1
           /\ index_file.obj.b = index.b
           /\ embedding_file.obj.inverted_index = index.inverted_index
           /\ embedding_file.obj.doc_freqs = index.doc_freqs
           /\ embedding_file.obj.doc_lengths = index.doc_lengths
           /\ embedding_file.obj.avg_doc_length = index.avg_doc_length

\* C27 witness: an initialize call of a new process returned by loading
\* the artifacts an interrupted save left: two chunk records with the
\* structures of one.
C27_Witness ==
    /\ pc = "idle"
    /\ call.op = "initialize"
    /\ call.outcome = "returned"
    /\ call.load_ret = "True"
    /\ prior.documents = <<>>
    /\ Len(index.documents) = 2
    /\ Len(index.doc_lengths) = 1

(***************************************************************************)
(* SpecChunk: chunk_text applied to every bounded input.                   *)
(***************************************************************************)
ChunkChars == {"a", " ", "\n"}

Texts == UNION {[1..n -> ChunkChars] : n \in 0..MaxTextLen}

\* texts of words that differ in their letters
LetterChars == {"a", "b", " "}

LetterTexts == UNION {[1..n -> LetterChars] : n \in 0..MaxTextLen}

\* one rotation of a pattern of word lengths: 0 at the positions of a
\* word, j at the position of the j-th character of the separator after it
RECURSIVE CycleMask(_, _)
CycleMask(lens, width) ==
    IF lens = <<>> THEN <<>>
    ELSE [i \in 1..(Head(lens) + width) |->
            IF i > Head(lens) THEN i - Head(lens) ELSE 0]
         \o CycleMask(Tail(lens), width)

\* the text of n characters whose words have the lengths of lens, taken in
\* rotation, and are separated by sep; its letters change with the
\* position, and its last character is a letter
PatternText(lens, sep, n) ==
    LET mask == CycleMask(lens, Len(sep))
        at(i) == mask[((i - 1) % Len(mask)) + 1]
    IN  [i \in 1..n |->
            IF at(i) # 0 /\ i < n THEN sep[at(i)]
            ELSE LowerChars[((i - 1) % 26) + 1]]

WordPatterns ==
    {<<1>>, <<4>>, <<9>>, <<49>>, <<50>>, <<1, 50>>, <<50, 1>>, <<7, 3, 12>>,
     <<2, 45, 30>>, <<50, 50, 49>>}

Separators == {<<" ">>, <<"\n">>, <<" ", " ">>, <<" ", "\n">>}

\* the texts of the chunking scenario: 1200 characters, one paragraph
ScenarioTexts ==
    {PatternText(lens, sep, 1200) : lens \in WordPatterns, sep \in Separators}

ChunkInit ==
    /\ \/ /\ text \in Texts \cup LetterTexts
          /\ chunk_size \in 0..MaxChunkSize
          /\ overlap \in 0..MaxChunkSize
       \/ /\ text \in ScenarioTexts
          /\ chunk_size = CHUNK_SIZE
          /\ overlap = CHUNK_OVERLAP
    /\ chunks = <<>>
    /\ chunk_pc = "call"
    /\ returned_tokens = <<>>
    /\ token_pc = "unused"
    /\ IndexUnused
    /\ SearchUnused
    /\ FacadeUnused

ChunkCall ==
    /\ chunk_pc = "call"
    /\ chunks' = ChunkText(text, chunk_size, overlap)
    /\ chunk_pc' = "returned"
    /\ UNCHANGED <<text, chunk_size, overlap, returned_tokens, token_pc>>
    /\ UNCHANGED <<indexVars, searchOnly, facadeOnly>>

ChunkNext == ChunkCall

SpecChunk == ChunkInit /\ [][ChunkNext]_vars

\* a chunk holds a word longer than max_size
HasLongWord(chunk, size) == \E i \in 1..Len(Split(chunk)) : Len(Split(chunk)[i]) > size

\* C2: every emitted chunk is at most max_size long unless it contains a
\* single unsplittable word that is itself longer than max_size.
C2_ChunkSizeBound ==
    (chunk_pc = "returned" /\ chunk_size > 0 /\ overlap < chunk_size) =>
        \A i \in 1..Len(chunks) :
            Len(chunks[i]) <= chunk_size \/ HasLongWord(chunks[i], chunk_size)

\* the input of the chunking scenario: 1200 characters in one paragraph of
\* whitespace-separated words of at most 50 characters, max_size 500 and
\* overlap 50
ScenarioInput ==
    /\ Len(text) = 1200
    /\ chunk_size = 500
    /\ overlap = 50
    /\ Len(SplitParagraphs(text)) = 1
    /\ LET words == Split(text)
       IN  \A i \in 1..Len(words) : Len(words[i]) <= 50

\* s is a prefix of t
StartsWith(t, s) == Len(s) <= Len(t) /\ s = SubSeq(t, 1, Len(s))

\* exactly three chunks of at most 500 characters, the second beginning
\* with the last 50 characters of the first (less a leading blank)
ThreeChunks ==
    /\ Len(chunks) = 3
    /\ \A i \in 1..3 : Len(chunks[i]) <= 500
    /\ StartsWith(chunks[2], LStrip(LastN(chunks[1], 50)))

\* C16 as stated: every input of the scenario gives the three chunks.
C16_ScenarioThreeChunks ==
    (chunk_pc = "returned" /\ ScenarioInput) => ThreeChunks

\* the words of the text are separated by single whitespace characters and
\* nothing precedes the first or follows the last
SingleSpaced(txt) ==
    /\ txt # <<>>
    /\ txt[1] \notin Whitespace
    /\ txt[Len(txt)] \notin Whitespace
    /\ \A i \in 1..(Len(txt) - 1) :
          ~(txt[i] \in Whitespace /\ txt[i + 1] \in Whitespace)

\* C16 amended: an input of the scenario whose words are separated by
\* single whitespace characters gives the three chunks.
C16_SingleSpacedThreeChunks ==
    (chunk_pc = "returned" /\ ScenarioInput /\ SingleSpaced(text)) => ThreeChunks

\* C16 witness: a single-spaced input of the scenario was chunked, and the
\* overlap the second chunk begins with starts inside a word.
C16_Witness ==
    /\ chunk_pc = "returned"
    /\ ScenarioInput
    /\ SingleSpaced(text)
    /\ Len(chunks) = 3
    /\ LastN(chunks[1], 51)[1] \notin Whitespace
    /\ LastN(chunks[1], 50)[1] \notin Whitespace

\* C18: no emitted chunk is empty or whitespace only, whatever the text,
\* the chunk size and the overlap, and a text that is empty or whitespace
\* only gives no chunk.
C18_NoEmptyChunk ==
    chunk_pc = "returned" =>
        /\ \A i \in 1..Len(chunks) : Strip(chunks[i]) # <<>>
        /\ Strip(text) = <<>> => chunks = <<>>

\* C18 witness: a text with a paragraph break whose first word alone
\* exceeds the chunk size was split into several chunks with overlap.
C18_Witness ==
    /\ chunk_pc = "returned"
    /\ Len(chunks) >= 2
    /\ overlap > 0
    /\ Len(SplitParagraphs(text)) >= 2
    /\ Len(Split(text)[1]) > chunk_size

\* the buffer the stated policy continues with after an emit: the trailing
\* overlap characters, and nothing when overlap is 0 or exceeds the buffer
PolicySeed(buffer, ovl) ==
    IF ovl = 0 \/ ovl > Len(buffer) THEN <<>> ELSE LastN(buffer, ovl)

\* the emits of the call that returned, in order
Emits == ChunkRun(text, chunk_size, overlap).emits

\* C21: after every emit made because the next paragraph or the next word
\* would exceed max_size, the buffer continues with the trailing overlap
\* characters of the emitted buffer, or empty when overlap is 0 or exceeds
\* its length, and the paragraph loop and the word loop would continue with
\* the same buffer.
C21_SameSeedPolicy ==
    chunk_pc = "returned" =>
        LET emits == Emits
        IN  \A i \in 1..Len(emits) :
                /\ emits[i].seed = PolicySeed(emits[i].buffer, overlap)
                /\ SeedParagraph(emits[i].buffer, overlap)
                      = SeedWord(emits[i].buffer, overlap)

\* C22: every whitespace-delimited word of every emitted chunk, the words
\* of its overlap prefix included, is a whole whitespace-delimited word of
\* the input.
C22_NoWordSplit ==
    chunk_pc = "returned" =>
        LET words == Range(Split(text))
        IN  \A i \in 1..Len(chunks) : Range(Split(chunks[i])) \subseteq words

\* the words of the chunks, chunk after chunk
RECURSIVE ChunkWords(_)
ChunkWords(cs) == IF cs = <<>> THEN <<>> ELSE Split(Head(cs)) \o ChunkWords(Tail(cs))

\* the position of the first occurrence of w in s
FirstAt(s, w) == CHOOSE i \in 1..Len(s) : s[i] = w /\ \A j \in 1..(i - 1) : s[j] # w

\* every word of the text is a word of some chunk
EveryWordKept ==
    (chunk_pc = "returned" /\ chunk_size > 0) =>
        Range(Split(text)) \subseteq Range(ChunkWords(chunks))

\* C29: for chunk size > 0 and overlap >= 0 every whitespace-delimited
\* word of the input is a whole word of at least one emitted chunk, and the
\* words first occur in the chunk sequence in the order in which they first
\* occur in the input.
C29_NoContentLost ==
    (chunk_pc = "returned" /\ chunk_size > 0 /\ overlap >= 0) =>
        LET words == Split(text)
            kept == ChunkWords(chunks)
            firsts == {i \in 1..Len(words) : \A j \in 1..(i - 1) : words[j] # words[i]}
        IN  /\ Range(words) \subseteq Range(kept)
            /\ LET at == [i \in firsts |-> FirstAt(kept, words[i])]
               IN  \A i, j \in firsts : i < j => at[i] < at[j]


(* source files: texts of several chunks on the word path and on the       *)
(* paragraph path, of one chunk and of none.                               *)
(***************************************************************************)
ParagraphBreak == <<"\n", "\n">>

\* three paragraphs of 300 characters
ThreeParagraphs ==
    PatternText(<<9>>, <<" ">>, 300) \o ParagraphBreak
    \o PatternText(<<4, 11>>, <<" ">>, 300) \o ParagraphBreak
    \o PatternText(<<7, 3, 12>>, <<" ">>, 300)

\* the markdown files of the research directory, sorted, then the JSON
\* files of the data directory, sorted
LoadPool ==
    <<[source |-> "research/a.md", title |-> "Alpha", file_type |-> "markdown",
       text |-> PatternText(<<7, 3, 12>>, <<" ">>, 1200)],
      [source |-> "research/b.md", title |-> "Untitled", file_type |-> "markdown",
       text |-> <<" ", "\n">>],
      [source |-> "research/c.md", title |-> "Gamma", file_type |-> "markdown",
       text |-> <<"a", "b">> \o SP \o <<"c", "d">>],
      [source |-> "data/d.json", title |-> "D", file_type |-> "json",
       text |-> ThreeParagraphs],
      [source |-> "data/e.json", title |-> "E", file_type |-> "json",
       text |-> <<"e", "f">> \o SP \o <<"c", "d">>],
      [source |-> "data/f.json", title |-> "F", file_type |-> "json",
       text |-> PatternText(<<2, 45, 30>>, <<"\n">>, 1200)]>>

\* the files of the pool that are present, in the order of the pool
RECURSIVE Present(_, _)
Present(names, i) ==
    IF i > Len(LoadPool) THEN <<>>
    ELSE (IF i \in names THEN <<LoadPool[i]>> ELSE <<>>) \o Present(names, i + 1)

LoadListings == {Present(names, 1) : names \in SUBSET (1..Len(LoadPool))}

LoadInit ==
    /\ source_files \in LoadListings
    /\ documents = <<>>
    /\ pc = "load"
    /\ index = NewIndex(DEFAULT_K1, DEFAULT_B)
    /\ index_file = Missing
    /\ embedding_file = Missing
    /\ prior = index
    /\ loaded = FALSE
    /\ call = NoCall
    /\ doc_idx = 0
    /\ observed = NoObservation
    /\ ChunkUnused
    /\ SearchUnused

\* documents = load_all_documents()
LoadCall ==
    /\ pc = "load"
    /\ documents' = LoadAllDocuments(source_files)
    /\ pc' = "documents"
    /\ UNCHANGED <<index, index_file, embedding_file, prior>>
    /\ UNCHANGED <<loaded, source_files, call, doc_idx, observed>>
    /\ UNCHANGED <<chunkVars, searchOnly>>

LoadNext == LoadCall

SpecLoad == LoadInit /\ [][LoadNext]_vars

\* the position of the file of this source in the listing
FileRank(source) == CHOOSE i \in 1..Len(source_files) : source_files[i].source = source

\* the records of the file of this source, in the order of the store
RecordsOf(source) == SelectSeq(documents, LAMBDA d : d.source = source)

\* C19: the record at ordinal n has id doc_n, the records follow the order
\* of the source files, the records of one file carry the file's chunks in
\* chunk order with chunk_index 0, 1, 2, ..., and no two records share an
\* id or a pair (source, chunk_index).
C19_RecordOrder ==
    pc = "documents" =>
        /\ \A n \in 1..Len(documents) : documents[n].id = <<"doc_", n - 1>>
        /\ \A m, n \in 1..Len(documents) :
              m < n => FileRank(documents[m].source) <= FileRank(documents[n].source)
        /\ \A f \in 1..Len(source_files) :
              LET records == RecordsOf(source_files[f].source)
                  file_chunks == ChunkText(source_files[f].text, CHUNK_SIZE, CHUNK_OVERLAP)
              IN  /\ Len(records) = Len(file_chunks)
                  /\ \A i \in 1..Len(records) :
                        /\ records[i].chunk_index = i - 1
                        /\ records[i].content = file_chunks[i]
        /\ \A m, n \in 1..Len(documents) :
              m # n =>
                  /\ documents[m].id # documents[n].id
                  /\ <<documents[m].source, documents[m].chunk_index>>
                        # <<documents[n].source, documents[n].chunk_index>>

\* C19 witness: after a markdown file of three chunks and a file of no
\* chunk, a JSON file of several chunks got its third record.
C19_Witness ==
    /\ pc = "documents"
    /\ Len(source_files) >= 3
    /\ \E n \in 4..Len(documents) :
          /\ documents[n].metadata.file_type = "json"
          /\ documents[n].chunk_index = 2
          /\ documents[1].metadata.file_type = "markdown"
    /\ \E f \in 1..Len(source_files) : RecordsOf(source_files[f].source) = <<>>

(***************************************************************************)
(* SpecTokenize: tokenize as a function of its text, on every text over    *)
(* letters of both cases, a digit, the hyphen, the underscore, the full    *)
(* stop and the blank.                                                     *)
(***************************************************************************)
MaxTokenTextLen == 4

TokenChars == {"a", "n", "A", "1", "-", "_", ".", " "}

TokenTexts == UNION {[1..n -> TokenChars] : n \in 0..MaxTokenTextLen}

TokenizeInit ==
    /\ text \in TokenTexts
    /\ chunk_size = CHUNK_SIZE
    /\ overlap = CHUNK_OVERLAP
    /\ chunks = <<>>
    /\ chunk_pc = "unused"
    /\ returned_tokens = <<>>
    /\ token_pc = "call"
    /\ IndexUnused
    /\ SearchUnused
    /\ FacadeUnused

\* returned_tokens = index.tokenize(text)
TokenizeCall ==
    /\ token_pc = "call"
    /\ returned_tokens' = Tokenize(text)
    /\ token_pc' = "returned"
    /\ UNCHANGED <<text, chunk_size, overlap, chunks, chunk_pc>>
    /\ UNCHANGED <<indexVars, searchOnly, facadeOnly>>

TokenizeNext == TokenizeCall

SpecTokenize == TokenizeInit /\ [][TokenizeNext]_vars

\* a lowercase term that starts and ends with an alphanumeric character,
\* holds nothing but alphanumerics and hyphens, is at least 2 long and is
\* no stopword
WellFormedTerm(t) ==
    /\ Len(t) >= 2
    /\ t[1] \in AlNum
    /\ t[Len(t)] \in AlNum
    /\ \A i \in 1..Len(t) : t[i] \in AlNum \cup {"-"}
    /\ t \notin Stopwords

\* the terms occur in s from position from on, one after the other
RECURSIVE OccurInOrder(_, _, _)
OccurInOrder(terms, s, from) ==
    \/ terms = <<>>
    \/ \E p \in from..(Len(s) - Len(Head(terms)) + 1) :
          /\ SubSeq(s, p, p + Len(Head(terms)) - 1) = Head(terms)
          /\ OccurInOrder(Tail(terms), s, p + Len(Head(terms)))

\* the maximal runs of alphanumerics and hyphens of s, from i on
RECURSIVE RunsFrom(_, _, _)
RunsFrom(s, i, cur) ==
    IF i > Len(s) THEN (IF cur = <<>> THEN <<>> ELSE <<cur>>)
    ELSE IF s[i] \in AlNum \cup {"-"}
         THEN RunsFrom(s, i + 1, Append(cur, s[i]))
         ELSE (IF cur = <<>> THEN <<>> ELSE <<cur>>) \o RunsFrom(s, i + 1, <<>>)

\* a run without its leading and trailing hyphens
RECURSIVE StripHyphens(_)
StripHyphens(t) ==
    IF t = <<>> THEN t
    ELSE IF t[1] = "-" THEN StripHyphens(Tail(t))
    ELSE IF t[Len(t)] = "-" THEN StripHyphens(SubSeq(t, 1, Len(t) - 1))
    ELSE t

\* the words of a text: its runs, lowercased, less the hyphens around them
Words(txt) ==
    LET runs == RunsFrom(Lower(txt), 1, <<>>)
    IN  [i \in 1..Len(runs) |-> StripHyphens(runs[i])]

====
